---- MODULE Spec2Model ----
(***************************************************************************)
(* Formation cycle plotter: column auto-detection, cycle segmentation and  *)
(* cycle selection of FormationCycleData (src/src/data_loader.py) and      *)
(* FormationCyclePlotter (src/src/plotter.py).                             *)
(*                                                                         *)
(* Conventions.                                                            *)
(*  - A Python str is a sequence of one-character strings, so that         *)
(*    lower(), strip(), split(), startswith(), "in" and int() are computed.*)
(*  - Row and column positions are 0-based as in the source; the TLA+      *)
(*    sequence holding them is 1-based, so row i is col[i + 1].            *)
(*  - Numbers of the table are integers in units of 1e-6, so the default   *)
(*    threshold 1e-6 is 1 and a current of 1 mA is 1000000.                *)
(*  - The argument None of cycle_input is the empty str: the source reads  *)
(*    it only through "not cycle_input", which holds of both.              *)
(***************************************************************************)
EXTENDS Integers, Sequences, FiniteSets, TLC

VARIABLES
    headers,         \* df.columns: the header row as read by pd.read_csv
    df,              \* the rows of self.df, each a sequence of Len(headers) numbers
    column_mapping,  \* self.column_mapping: standard name -> 0-based column
    constructed,     \* "no" before __init__, "yes" after it returned, "failed" if it raised
    last             \* the last call made on the object and what it returned or raised

vars == <<headers, df, column_mapping, constructed, last>>

----------------------------------------------------------------------------
(* Bounds of the model *)

MaxLen == 4      \* longest generated table (rows)
MaxCols == 4     \* longest generated header row in SpecCols (columns)
TimeStart == 7   \* time stamp of row 0 of a generated table

----------------------------------------------------------------------------
(* Python str operations *)

UpperCase ==
    [c \in {"A", "B", "C", "D", "E", "F", "G", "H", "I", "J", "K", "L", "M",
            "N", "O", "P", "Q", "R", "S", "T", "U", "V", "W", "X", "Y", "Z"} |->
        CASE c = "A" -> "a" [] c = "B" -> "b" [] c = "C" -> "c" [] c = "D" -> "d"
          [] c = "E" -> "e" [] c = "F" -> "f" [] c = "G" -> "g" [] c = "H" -> "h"
          [] c = "I" -> "i" [] c = "J" -> "j" [] c = "K" -> "k" [] c = "L" -> "l"
          [] c = "M" -> "m" [] c = "N" -> "n" [] c = "O" -> "o" [] c = "P" -> "p"
          [] c = "Q" -> "q" [] c = "R" -> "r" [] c = "S" -> "s" [] c = "T" -> "t"
          [] c = "U" -> "u" [] c = "V" -> "v" [] c = "W" -> "w" [] c = "X" -> "x"
          [] c = "Y" -> "y" [] c = "Z" -> "z"]

Whitespace == {" ", "\t"}

Digits == <<"0", "1", "2", "3", "4", "5", "6", "7", "8", "9">>

\* str.lower()
str_lower(s) ==
    [k \in 1..Len(s) |-> IF s[k] \in DOMAIN UpperCase THEN UpperCase[s[k]] ELSE s[k]]

RECURSIVE lstrip(_)
lstrip(s) ==
    IF s # <<>> /\ Head(s) \in Whitespace THEN lstrip(Tail(s)) ELSE s

RECURSIVE rstrip(_)
rstrip(s) ==
    IF s # <<>> /\ s[Len(s)] \in Whitespace THEN rstrip(SubSeq(s, 1, Len(s) - 1)) ELSE s

\* str.strip()
str_strip(s) == rstrip(lstrip(s))

\* "pattern in col": pattern occurs in col as a substring
str_contains(pattern, col) ==
    \E k \in 0..(Len(col) - Len(pattern)) : SubSeq(col, k + 1, k + Len(pattern)) = pattern

\* str.startswith(prefix)
str_startswith(s, prefix) ==
    Len(s) >= Len(prefix) /\ SubSeq(s, 1, Len(prefix)) = prefix

\* str.split(): the maximal runs of non-whitespace characters, in order
RECURSIVE split_from(_, _, _)
split_from(s, k, word) ==
    IF k > Len(s)
    THEN IF word = <<>> THEN <<>> ELSE <<word>>
    ELSE IF s[k] \in Whitespace
         THEN (IF word = <<>> THEN <<>> ELSE <<word>>) \o split_from(s, k + 1, <<>>)
         ELSE split_from(s, k + 1, Append(word, s[k]))

str_split(s) == split_from(s, 1, <<>>)

DigitValue(c) == (CHOOSE k \in 1..10 : Digits[k] = c) - 1

IsDigit(c) == \E k \in 1..10 : Digits[k] = c

RECURSIVE digits_value(_, _)
digits_value(s, acc) ==
    IF s = <<>> THEN acc ELSE digits_value(Tail(s), 10 * acc + DigitValue(Head(s)))

\* int(s) accepts surrounding whitespace, one optional sign and decimal digits
\* (underscores and non-ASCII digits are not in the alphabet of the inputs)
int_body(s) == IF s # <<>> /\ Head(s) \in {"+", "-"} THEN Tail(s) ELSE s

int_ok(s) ==
    LET t == str_strip(s)
    IN  int_body(t) # <<>> /\ \A k \in 1..Len(int_body(t)) : IsDigit(int_body(t)[k])

int_value(s) ==
    LET t == str_strip(s)
    IN  IF Head(t) = "-" THEN 0 - digits_value(int_body(t), 0)
        ELSE digits_value(int_body(t), 0)

----------------------------------------------------------------------------
(* Column auto-detection *)

StandardCols == <<"cycle", "time", "potential", "capacity", "current">>

COLUMN_PATTERNS ==
    [cycle     |-> << <<"c", "y", "c", "l", "e">>,
                      <<"c", "y", "c", "l", "e", " ", "n", "u", "m", "b", "e", "r">> >>,
     time      |-> << <<"t", "i", "m", "e">>,
                      <<"t", "i", "m", "e", "/", "s">>,
                      <<"t", "i", "m", "e", " ", "(", "s", ")">> >>,
     potential |-> << <<"e", "w", "e">>,
                      <<"p", "o", "t", "e", "n", "t", "i", "a", "l">>,
                      <<"e", "/", "v">>,
                      <<"p", "o", "t", "e", "n", "t", "i", "a", "l", " ", "(", "v", ")">>,
                      <<"e", "w", "e", "/", "v">> >>,
     capacity  |-> << <<"c", "a", "p", "a", "c", "i", "t", "y">>,
                      <<"q", " ", "c", "h", "a", "r", "g", "e">>,
                      <<"c", "a", "p", "a", "c", "i", "t", "y", "/", "m", "a", ".", "h">>,
                      <<"c", "a", "p", "a", "c", "i", "t", "y", " ", "(", "m", "a", "h", ")">> >>,
     current   |-> << <<"i">>,
                      <<"c", "u", "r", "r", "e", "n", "t">>,
                      <<"i", "/", "m", "a">>,
                      <<"c", "u", "r", "r", "e", "n", "t", " ", "(", "m", "a", ")">>,
                      <<"i", "/", "m", "A">> >>]

required == <<"time", "potential", "capacity", "current">>

\* df_columns = [col.strip().lower() for col in self.df.columns]
df_columns_of(hs) == [k \in 1..Len(hs) |-> str_lower(str_strip(hs[k]))]

\* for pattern in patterns: if pattern.lower() in col: (bind and) break
RECURSIVE pattern_loop(_, _, _)
pattern_loop(patterns, col, k) ==
    IF k > Len(patterns) THEN FALSE
    ELSE IF str_contains(str_lower(patterns[k]), col) THEN TRUE
    ELSE pattern_loop(patterns, col, k + 1)

\* header_loop without its break: the scan does not stop at the first bound
\* header, so the last matching header wins. -1 stands for "not bound".
RECURSIVE header_loop_no_break(_, _, _)
header_loop_no_break(patterns, df_columns, i) ==
    IF i >= Len(df_columns) THEN -1
    ELSE LET rest == header_loop_no_break(patterns, df_columns, i + 1)
         IN  IF rest # -1 THEN rest
             ELSE IF pattern_loop(patterns, df_columns[i + 1], 1) THEN i ELSE -1

\* for i, col in enumerate(df_columns): ... ; if standard_col in mapping: break
\* The column bound to the field, -1 when the loop ends with the field unbound.
RECURSIVE header_loop(_, _, _)
header_loop(patterns, df_columns, i) ==
    IF i >= Len(df_columns) THEN -1
    ELSE IF pattern_loop(patterns, df_columns[i + 1], 1) THEN i
    ELSE header_loop(patterns, df_columns, i + 1)

\* The mapping built by the loop over COLUMN_PATTERNS.items()
mapping_of(cols) ==
    [f \in {StandardCols[k] : k \in {j \in 1..Len(StandardCols) :
                header_loop(COLUMN_PATTERNS[StandardCols[j]], cols, 0) # -1}} |->
        header_loop(COLUMN_PATTERNS[f], cols, 0)]

\* FormationCycleData._auto_detect_columns, up to the validation
detected_mapping(hs) == mapping_of(df_columns_of(hs))

\* required = ['potential', 'capacity', 'current']: 'time' would not be required
missing_of_but_time(mapping) ==
    SelectSeq(<<"potential", "capacity", "current">>, LAMBDA f : f \notin DOMAIN mapping)

\* missing = [col for col in required if col not in self.column_mapping]
missing_of(mapping) ==
    SelectSeq(required, LAMBDA f : f \notin DOMAIN mapping)

----------------------------------------------------------------------------
(* Results of calls *)

\* Messages of the ValueErrors, with their placeholders left in place
MsgLoadAutoDetect ==
    "Error loading {filename}: Could not auto-detect columns for: {missing}. Available columns: {columns}"
MsgLoadMissing == "Error loading {filename}: Missing required column: {req_col}"
MsgNotMapped == "Column '{col_name}' not found or not mapped"
MsgNoCurrent == "No non-zero current in {filename}"
MsgEmptyFrame == "IndexError: single positional indexer is out-of-bounds"
MsgInvalidCycleNumber == "Invalid cycle number {cycle_num}. Available: 1-{len(cycles)}"
MsgDischargeNotFound ==
    "Discharge cycle {discharge_num} not found. Available: 1-{len(discharge_cycles)}"
MsgChargeNotFound == "Charge cycle {charge_num} not found. Available: 1-{len(charge_cycles)}"
MsgDischargeFormat ==
    "Invalid discharge format: {cycle_input}. Use 'discharge X' where X is 1, 2, 3, etc."
MsgChargeFormat ==
    "Invalid charge format: {cycle_input}. Use 'charge X' where X is 1, 2, 3, etc."
MsgCycleFormat ==
    "Invalid cycle format: {cycle_input}. Use 'discharge X', 'charge X', or a cycle number."

\* What a call leaves behind: raised with its message and the numbers and names
\* filled into it, or the value returned (none: the call returned None).
NoResult ==
    [op |-> "none", input |-> <<>>, args |-> <<>>,
     raised |-> FALSE, message |-> "", nums |-> <<>>, names |-> <<>>, columns |-> <<>>,
     none |-> FALSE, cycles |-> <<>>, discharge |-> <<>>, charge |-> <<>>,
     indices |-> <<>>, plotted |-> <<>>]

Raise(msg, ns) == [NoResult EXCEPT !.raised = TRUE, !.message = msg, !.nums = ns]

----------------------------------------------------------------------------
(* Cycle segmentation *)

Threshold == 1   \* threshold: float = 1e-6, in units of 1e-6

abs(x) == IF x < 0 THEN 0 - x ELSE x

\* np.sign compared on the numbers themselves instead of their signs
np_sign_identity(x) == x

\* np.sign
np_sign(x) == IF x > 0 THEN 1 ELSE IF x < 0 THEN -1 ELSE 0

\* self.df.iloc[:, idx]
iloc_col(d, idx) == [k \in 1..Len(d) |-> d[k][idx + 1]]

\* current_col.abs() >= threshold: a reading at the threshold would be active
non_zero_mask_at_or_above(col, threshold) ==
    [k \in 1..Len(col) |-> abs(col[k]) >= threshold]

\* non_zero_mask = current_col.abs() > threshold
non_zero_mask_of(col, threshold) == [k \in 1..Len(col) |-> abs(col[k]) > threshold]

\* non_zero_mask.any()
mask_any(mask) == \E k \in 1..Len(mask) : mask[k]

\* non_zero_mask.idxmax(): the first row of the largest value, the first True row
RECURSIVE idxmax_from(_, _)
idxmax_from(mask, i) ==
    IF i >= Len(mask) THEN 0
    ELSE IF mask[i + 1] THEN i
    ELSE idxmax_from(mask, i + 1)

idxmax(mask) == idxmax_from(mask, 0)

\* for i in range(first_nonzero, len(self.df) - 1):
\*     if np.sign(row i) != np.sign(row i + 1): sign_change_indices.append(i + 1)
RECURSIVE sign_change_loop(_, _)
sign_change_loop(col, i) ==
    IF i >= Len(col) - 1 THEN <<>>
    ELSE (IF np_sign(col[i + 1]) # np_sign(col[i + 2]) THEN <<i + 1>> ELSE <<>>)
         \o sign_change_loop(col, i + 1)

\* sign_change_indices = [first_nonzero] + the sign changes + [len(self.df) - 1]
sign_change_indices_of(col, first_nonzero) ==
    <<first_nonzero>> \o sign_change_loop(col, first_nonzero) \o <<Len(col) - 1>>

\* cycles.append((sign_change_indices[i], sign_change_indices[i + 1]))
pairs_of(idx) == [k \in 1..(Len(idx) - 1) |-> <<idx[k], idx[k + 1]>>]

\* get_cycles from "if not non_zero_mask.any()" on
cycles_from_mask(current_col, mask) ==
    IF ~mask_any(mask) THEN Raise(MsgNoCurrent, <<>>)
    ELSE [NoResult EXCEPT
             !.cycles = pairs_of(sign_change_indices_of(current_col, idxmax(mask)))]

\* get_cycles from "non_zero_mask = current_col.abs() > threshold" on
cycles_of_column(current_col, threshold) ==
    cycles_from_mask(current_col, non_zero_mask_of(current_col, threshold))

\* FormationCycleData.get_cycles(threshold); _get_col_idx raises on an unmapped name
get_cycles(d, mapping, threshold) ==
    IF "current" \notin DOMAIN mapping THEN Raise(MsgNotMapped, <<>>)
    ELSE cycles_of_column(iloc_col(d, mapping["current"]), threshold)

\* self.df.iloc[start_idx:end_idx, idx] for 0 <= start_idx <= end_idx <= len
iloc_slice(d, start_idx, end_idx, idx) == SubSeq(iloc_col(d, idx), start_idx + 1, end_idx)

RECURSIVE seq_sum(_)
seq_sum(s) == IF s = <<>> THEN 0 ELSE Head(s) + seq_sum(Tail(s))

\* avg_current <= 0: a cycle of mean zero would count as discharge
mean_is_not_positive(s) == seq_sum(s) <= 0

\* avg_current < 0, where .mean() of no rows is NaN and NaN < 0 is False
mean_is_negative(s) == Len(s) > 0 /\ seq_sum(s) < 0

\* if avg_current < 0 (for the cycle c of the column)
is_discharge(current_col, c) == mean_is_negative(SubSeq(current_col, c[1] + 1, c[2]))

\* The loop of get_discharge_charge_cycles over the cycles get_cycles returned
\* (got), which raises what get_cycles raised
classify(current_col, got) ==
    IF got.raised THEN got
    ELSE [NoResult EXCEPT
             !.discharge = SelectSeq(got.cycles, LAMBDA c : is_discharge(current_col, c)),
             !.charge = SelectSeq(got.cycles, LAMBDA c : ~is_discharge(current_col, c))]

\* FormationCycleData.get_discharge_charge_cycles(threshold)
get_discharge_charge_cycles(d, mapping, threshold) ==
    classify(iloc_col(d, mapping["current"]), get_cycles(d, mapping, threshold))

\* get_cycle_data after "cycles = self.get_cycles()"
cycle_data_of(got, cycle_num) ==
    IF got.raised THEN got
    ELSE IF cycle_num < 1 \/ cycle_num > Len(got.cycles)
    THEN Raise(MsgInvalidCycleNumber, <<cycle_num, Len(got.cycles)>>)
    ELSE [NoResult EXCEPT !.cycles = <<got.cycles[cycle_num]>>]

\* FormationCycleData.get_cycle_data(cycle_num)
get_cycle_data(d, mapping, cycle_num) ==
    cycle_data_of(get_cycles(d, mapping, Threshold), cycle_num)

\* FormationCycleData.get_column_data(col_name, cycle_range); <<>> is no range
get_column_data(d, mapping, col_name, cycle_range) ==
    IF cycle_range # <<>>
    THEN iloc_slice(d, cycle_range[1], cycle_range[2], mapping[col_name])
    ELSE iloc_col(d, mapping[col_name])

\* self.df.loc[first_nonzero + 1:]: the first active row would be dropped too
trimmed_after_first(d, mask) ==
    IF mask_any(mask) THEN SubSeq(d, idxmax(mask) + 2, Len(d)) ELSE d

\* if non_zero_mask.any(): self.df = self.df.loc[first_nonzero:].reset_index(drop=True)
trimmed_by(d, mask) ==
    IF mask_any(mask) THEN SubSeq(d, idxmax(mask) + 1, Len(d)) ELSE d

\* The table trim_to_first_cycle leaves (its threshold is the literal 1e-6)
trimmed(d, mapping) ==
    trimmed_by(d, non_zero_mask_of(iloc_col(d, mapping["current"]), Threshold))

\* self.df.iloc[:, time_idx] = self.df.iloc[:, time_idx] - initial_time
shift_time(d, time_idx, initial_time) ==
    [k \in 1..Len(d) |-> [d[k] EXCEPT ![time_idx + 1] = d[k][time_idx + 1] - initial_time]]

\* The table normalize_time leaves; initial_time = float(self.df.iloc[0, time_idx])
time_normalized(d, mapping) ==
    shift_time(d, mapping["time"], d[1][mapping["time"] + 1])

----------------------------------------------------------------------------
(* Cycle selection and plotting *)

\* for idx, cycle_range in enumerate(all_cycles): ... return [idx], the 0-based position
RECURSIVE enumerate_loop_zero_based(_, _, _)
enumerate_loop_zero_based(all_cycles, target_range, idx) ==
    IF idx >= Len(all_cycles) THEN [NoResult EXCEPT !.none = TRUE]
    ELSE IF all_cycles[idx + 1] = target_range THEN [NoResult EXCEPT !.indices = <<idx>>]
    ELSE enumerate_loop_zero_based(all_cycles, target_range, idx + 1)

\* for idx, cycle_range in enumerate(all_cycles):
\*     if cycle_range == target_range: return [idx + 1]
\* and the function ends, returning None, when the loop finds nothing
RECURSIVE enumerate_loop(_, _, _)
enumerate_loop(all_cycles, target_range, idx) ==
    IF idx >= Len(all_cycles) THEN [NoResult EXCEPT !.none = TRUE]
    ELSE IF all_cycles[idx + 1] = target_range THEN [NoResult EXCEPT !.indices = <<idx + 1>>]
    ELSE enumerate_loop(all_cycles, target_range, idx + 1)

\* if 1 <= num <= len(sub): target_range = sub[num - 1]; search all_cycles for it
\* else: raise ValueError("... not found. Available: 1-{len(sub)}")
nth_of_sublist(num, sub, all_cycles, which) ==
    IF 1 <= num /\ num <= Len(sub)
    THEN enumerate_loop(all_cycles, sub[num], 0)
    ELSE Raise(IF which = "discharge" THEN MsgDischargeNotFound ELSE MsgChargeNotFound,
               <<num, Len(sub)>>)

\* The try body after int(parts[1]): got is what get_discharge_charge_cycles
\* returned or raised, all what get_cycles did
select_from(num, got, all, which) ==
    IF got.raised THEN got
    ELSE nth_of_sublist(num, IF which = "discharge" THEN got.discharge ELSE got.charge,
                        all.cycles, which)

\* The body of "try:" in the 'discharge' and the 'charge' branch (which names it)
try_body(parts, d, mapping, which) ==
    IF ~int_ok(parts[2]) THEN Raise("invalid literal for int() with base 10", <<>>)
    ELSE select_from(int_value(parts[2]),
                     get_discharge_charge_cycles(d, mapping, Threshold),
                     get_cycles(d, mapping, Threshold), which)

\* except (ValueError, IndexError) as e: raise ValueError("Invalid ... format ...")
\* replaces whatever the try body raised
except_handler(tried, which) ==
    IF tried.raised
    THEN Raise(IF which = "discharge" THEN MsgDischargeFormat ELSE MsgChargeFormat, <<>>)
    ELSE tried

\* if len(parts) == 2: try ... except ...; otherwise the function ends, returning None
branch_of_parts(parts, d, mapping, which) ==
    IF Len(parts) = 2
    THEN except_handler(try_body(parts, d, mapping, which), which)
    ELSE [NoResult EXCEPT !.none = TRUE]

\* The 'discharge' and the 'charge' branch; parts = cycle_input.split()
sublist_branch(cycle_input, d, mapping, which) ==
    branch_of_parts(str_split(cycle_input), d, mapping, which)

\* _parse_cycle_input after cycle_input = cycle_input.lower().strip()
parse_stripped(cycle_input, d, mapping) ==
    IF str_startswith(cycle_input, <<"d", "i", "s", "c", "h", "a", "r", "g", "e">>)
    THEN sublist_branch(cycle_input, d, mapping, "discharge")
    ELSE IF str_startswith(cycle_input, <<"c", "h", "a", "r", "g", "e">>)
    THEN sublist_branch(cycle_input, d, mapping, "charge")
    ELSE IF int_ok(cycle_input)
    THEN [NoResult EXCEPT !.indices = <<int_value(cycle_input)>>]
    ELSE Raise(MsgCycleFormat, <<>>)

\* FormationCyclePlotter._parse_cycle_input(cycle_input, data)
parse_cycle_input(raw_input, d, mapping) ==
    IF raw_input = <<>> \/ str_lower(raw_input) = <<"a", "l", "l">>
    THEN [NoResult EXCEPT !.none = TRUE]
    ELSE parse_stripped(str_strip(str_lower(raw_input)), d, mapping)

col_names == <<"time", "potential", "capacity", "current">>

\* FormationCyclePlotter.plot_single_file: the series handed to ax.plot, each with
\* the rows it was cut from, its x and y data, the divisor applied to x (3600 for
\* time, active_mass for capacity, 1 otherwise) and whether it carries the label.
\* active_mass None is 0.
\* [idx - 1 for idx in cycle_indices if 1 <= idx <= len(cycles)]
zero_indexed(kept) == [k \in 1..Len(kept) |-> kept[k] - 1]

\* cycle_range_list: every cycle when _parse_cycle_input returned None, otherwise
\* the indices it returned that lie in 1..len(cycles), 0-indexed
cycle_range_list_of(parsed, cycles) ==
    IF parsed.none THEN [k \in 1..Len(cycles) |-> k - 1]
    ELSE zero_indexed(SelectSeq(parsed.indices, LAMBDA idx : 1 <= idx /\ idx <= Len(cycles)))

\* One pass of "for cycle_idx in cycle_range_list": what ax.plot is given
series_of(d, mapping, x_col, y_col, active_mass, range, labelled) ==
    [range |-> range,
     x |-> get_column_data(d, mapping, col_names[x_col], range),
     xdiv |-> IF x_col = 1 THEN 3600
              ELSE IF x_col = 3 /\ active_mass # 0 THEN active_mass
              ELSE 1,
     y |-> get_column_data(d, mapping, col_names[y_col], range),
     label |-> labelled]

plot_loop(d, mapping, x_col, y_col, active_mass, cycles, cycle_range_list) ==
    [k \in 1..Len(cycle_range_list) |->
        series_of(d, mapping, x_col, y_col, active_mass,
                  cycles[cycle_range_list[k] + 1],
                  cycle_range_list[k] = cycle_range_list[1])]

\* plot_single_file after cycles = data.get_cycles() (got) and
\* cycle_indices = self._parse_cycle_input(cycle_input, data) (parsed)
plot_parsed(d, mapping, x_col, y_col, active_mass, got, parsed) ==
    IF got.raised THEN got
    ELSE IF parsed.raised THEN parsed
    ELSE [NoResult EXCEPT
             !.plotted = plot_loop(d, mapping, x_col, y_col, active_mass, got.cycles,
                                   cycle_range_list_of(parsed, got.cycles))]

plot_single_file(d, mapping, x_col, y_col, cycle_input, active_mass) ==
    plot_parsed(d, mapping, x_col, y_col, active_mass,
                get_cycles(d, mapping, Threshold),
                parse_cycle_input(cycle_input, d, mapping))

----------------------------------------------------------------------------
(* Inputs *)

\* Current readings: -1 mA, 0, 1e-6 mA (at the threshold, not above it), 1 mA
CurrentValues == {-1000000, 0, 1, 1000000}

CurrentSeqs == UNION {[1..n -> CurrentValues] : n \in 0..MaxLen}

\* [0, 0, 1, 1, -1, -1, -1, 2] mA
ScenarioCurrent == <<0, 0, 1000000, 1000000, -1000000, -1000000, -1000000, 2000000>>

\* A header row on which every required field is bound to its own column
TableHeaders ==
    << <<"I", "/", "m", "A">>, <<"t", "i", "m", "e", "/", "s">>,
       <<"E", "w", "e", "/", "V">>,
       <<"Q", " ", "c", "h", "a", "r", "g", "e", "/", "m", "A", ".", "h">> >>

\* The rows of a file under TableHeaders with the given current readings, one
\* reading per time unit; potential and capacity are not read by segmentation
TableOf(cur) == [k \in 1..Len(cur) |-> <<cur[k], TimeStart + k - 1, 0, 0>>]

ScenarioHeaders ==
    << <<"E", "w", "e", "/", "V">>, <<"t", "i", "m", "e", "/", "s">>,
       <<"Q", " ", "c", "h", "a", "r", "g", "e", "/", "m", "A", ".", "h">>,
       <<"I", "/", "m", "A">> >>

HeaderPool ==
    { <<"E", "w", "e", "/", "V">>,
      <<"t", "i", "m", "e", "/", "s">>,
      <<"Q", " ", "c", "h", "a", "r", "g", "e", "/", "m", "A", ".", "h">>,
      <<"I", "/", "m", "A">>,
      <<"P", "o", "t", "e", "n", "t", "i", "a", "l", " ", "(", "V", ")">>,
      <<"C", "u", "r", "r", "e", "n", "t", " ", "(", "m", "A", ")">>,
      <<"c", "y", "c", "l", "e", " ", "n", "u", "m", "b", "e", "r">>,
      <<" ", "C", "a", "p", "a", "c", "i", "t", "y", " ">> }

\* Header rows of distinct names (pd.read_csv renames a repeated name) and of
\* one column at least (a file without a header line has no columns to parse)
HeaderRows ==
    {hs \in UNION {[1..n -> HeaderPool] : n \in 1..MaxCols} :
        \A a, b \in 1..Len(hs) : a # b => hs[a] # hs[b]}

CycleInputs ==
    { <<>>,
      <<"a", "l", "l">>,
      <<"A", "l", "l">>,
      <<"d", "i", "s", "c", "h", "a", "r", "g", "e", " ", "1">>,
      <<"D", "i", "s", "c", "h", "a", "r", "g", "e", " ", " ", "2">>,
      <<"d", "i", "s", "c", "h", "a", "r", "g", "e", " ", "0">>,
      <<"c", "h", "a", "r", "g", "e", " ", "1">>,
      <<"c", "h", "a", "r", "g", "e", " ", "2">>,
      <<"c", "h", "a", "r", "g", "e", " ", "3">>,
      <<"1">>,
      <<"2">>,
      <<" ", "9">>,
      <<"0">>,
      <<"-", "1">>,
      <<"d", "i", "s", "c", "h", "a", "r", "g", "e">>,
      <<"d", "i", "s", "c", "h", "a", "r", "g", "e", " ", "1", " ", "2">>,
      <<"c", "h", "a", "r", "g", "e">>,
      <<"c", "h", "a", "r", "g", "e", " ", "x">>,
      <<"c", "y", "c", "l", "e", " ", "1">> }

\* (x_col, y_col, active_mass): potential over time, potential over capacity
\* without and with an active mass
PlotArgs == { <<1, 2, 0>>, <<3, 2, 0>>, <<3, 2, 2>> }

CycleNums == {0, 1, 2}

----------------------------------------------------------------------------
(* The state machine *)

EmptyMapping == [f \in {} |-> 0]

\* The callers in gui.py (_select_files, _generate_plot) build a new object for
\* every query: construct, trim, normalize, then one query whose result is shown.
\* Here the mutators may run any number of times in any order before the query,
\* and the query is the last call on the object.
queried ==
    last.op \in {"get_cycles", "get_discharge_charge_cycles", "get_cycle_data",
                 "_parse_cycle_input", "plot_single_file"}

Init ==
    /\ headers = TableHeaders
    /\ df \in {TableOf(cur) : cur \in CurrentSeqs \cup {ScenarioCurrent}}
    /\ column_mapping = EmptyMapping
    /\ constructed = "no"
    /\ last = NoResult

InitCols ==
    /\ headers \in HeaderRows
    /\ df = <<>>
    /\ column_mapping = EmptyMapping
    /\ constructed = "no"
    /\ last = NoResult

\* What load_file raises: _auto_detect_columns names every missing field and the
\* headers, _validate_columns the first missing field; load_file wraps the message
load_result(auto_detect, missing, hs) ==
    IF missing = <<>> THEN NoResult
    ELSE [NoResult EXCEPT
             !.raised = TRUE,
             !.message = IF auto_detect THEN MsgLoadAutoDetect ELSE MsgLoadMissing,
             !.names = IF auto_detect THEN missing ELSE <<Head(missing)>>,
             !.columns = IF auto_detect THEN hs ELSE <<>>]

\* FormationCycleData.__init__ -> load_file -> _auto_detect_columns / _validate_columns
load_file(auto_detect) ==
    /\ constructed = "no"
    /\ column_mapping' = IF auto_detect THEN detected_mapping(headers) ELSE EmptyMapping
    /\ constructed' = IF missing_of(column_mapping') = <<>> THEN "yes" ELSE "failed"
    /\ last' = [load_result(auto_detect, missing_of(column_mapping'), headers)
                  EXCEPT !.op = "load_file", !.args = <<IF auto_detect THEN 1 ELSE 0>>]
    /\ UNCHANGED <<headers, df>>

\* FormationCycleData.trim_to_first_cycle
trim_to_first_cycle ==
    /\ constructed = "yes"
    /\ ~queried
    /\ df' = trimmed(df, column_mapping)
    /\ last' = [NoResult EXCEPT !.op = "trim_to_first_cycle"]
    /\ UNCHANGED <<headers, column_mapping, constructed>>

\* FormationCycleData.normalize_time; df.iloc[0, time_idx] raises on a table of no rows
normalize_time ==
    /\ constructed = "yes"
    /\ ~queried
    /\ IF df = <<>>
       THEN /\ last' = [Raise(MsgEmptyFrame, <<>>) EXCEPT !.op = "normalize_time"]
            /\ UNCHANGED df
       ELSE /\ df' = time_normalized(df, column_mapping)
            /\ last' = [NoResult EXCEPT !.op = "normalize_time"]
    /\ UNCHANGED <<headers, column_mapping, constructed>>

call_get_cycles ==
    /\ constructed = "yes"
    /\ ~queried
    /\ last' = [get_cycles(df, column_mapping, Threshold) EXCEPT !.op = "get_cycles"]
    /\ UNCHANGED <<headers, df, column_mapping, constructed>>

call_get_discharge_charge_cycles ==
    /\ constructed = "yes"
    /\ ~queried
    /\ last' = [get_discharge_charge_cycles(df, column_mapping, Threshold)
                  EXCEPT !.op = "get_discharge_charge_cycles"]
    /\ UNCHANGED <<headers, df, column_mapping, constructed>>

call_get_cycle_data(cycle_num) ==
    /\ constructed = "yes"
    /\ ~queried
    /\ last' = [get_cycle_data(df, column_mapping, cycle_num)
                  EXCEPT !.op = "get_cycle_data", !.args = <<cycle_num>>]
    /\ UNCHANGED <<headers, df, column_mapping, constructed>>

call_parse_cycle_input(cycle_input) ==
    /\ constructed = "yes"
    /\ ~queried
    /\ last' = [parse_cycle_input(cycle_input, df, column_mapping)
                  EXCEPT !.op = "_parse_cycle_input", !.input = cycle_input]
    /\ UNCHANGED <<headers, df, column_mapping, constructed>>

call_plot_single_file(cycle_input, a) ==
    /\ constructed = "yes"
    /\ ~queried
    /\ last' = [plot_single_file(df, column_mapping, a[1], a[2], cycle_input, a[3])
                  EXCEPT !.op = "plot_single_file", !.input = cycle_input, !.args = a]
    /\ UNCHANGED <<headers, df, column_mapping, constructed>>

Next ==
    \/ \E auto_detect \in BOOLEAN : load_file(auto_detect)
    \/ trim_to_first_cycle
    \/ normalize_time
    \/ call_get_cycles
    \/ call_get_discharge_charge_cycles
    \/ \E cycle_num \in CycleNums : call_get_cycle_data(cycle_num)
    \/ \E cycle_input \in CycleInputs : call_parse_cycle_input(cycle_input)
    \/ \E cycle_input \in CycleInputs, a \in PlotArgs : call_plot_single_file(cycle_input, a)

Spec == Init /\ [][Next]_vars

NextCols == \E auto_detect \in BOOLEAN : load_file(auto_detect)

SpecCols == InitCols /\ [][NextCols]_vars

\* The rows of a file under ScenarioHeaders (potential, time, capacity, current)
\* with the given current readings, one reading per second from TimeStart on;
\* like the currents, the times are in units of 1e-6
ScenarioTableOf(cur) ==
    [k \in 1..Len(cur) |-> <<0, 1000000 * (TimeStart + k - 1), 0, cur[k]>>]

\* Files under either header row
InitFiles ==
    /\ \/ /\ headers = TableHeaders
          /\ df \in {TableOf(cur) : cur \in CurrentSeqs}
       \/ /\ headers = ScenarioHeaders
          /\ df \in {ScenarioTableOf(cur) : cur \in CurrentSeqs}
    /\ column_mapping = EmptyMapping
    /\ constructed = "no"
    /\ last = NoResult

SpecFiles == InitFiles /\ [][Next]_vars

----------------------------------------------------------------------------
(* Vocabulary of the properties, stated on the table itself *)

\* The current column of the constructed object's table
CurrentCol == iloc_col(df, column_mapping["current"])

\* The sign of a reading
Sgn(x) == IF x > 0 THEN 1 ELSE IF x < 0 THEN -1 ELSE 0

\* Active rows: the absolute current exceeds the threshold
ActiveRows == {i \in 0..(Len(df) - 1) : abs(CurrentCol[i + 1]) > Threshold}

HasActiveRow == constructed = "yes" /\ ActiveRows # {}

FirstActiveRow == CHOOSE i \in ActiveRows : \A j \in ActiveRows : i <= j

LastRow == Len(df) - 1

SetMin(S) == CHOOSE i \in S : \A j \in S : i <= j

RECURSIVE Concat(_)
Concat(ss) == IF ss = <<>> THEN <<>> ELSE Head(ss) \o Concat(Tail(ss))

\* The text reads "<word> K" once lower-cased and stripped, K an integer literal
IsWordK(text, word) ==
    LET parts == str_split(str_strip(str_lower(text)))
    IN  Len(parts) = 2 /\ parts[1] = word /\ int_ok(parts[2])

KOf(text) == int_value(str_split(str_strip(str_lower(text)))[2])

TextDischarge == <<"d", "i", "s", "c", "h", "a", "r", "g", "e">>
TextCharge == <<"c", "h", "a", "r", "g", "e">>
TextDischarge1 == <<"d", "i", "s", "c", "h", "a", "r", "g", "e", " ", "1">>
TextCharge2 == <<"c", "h", "a", "r", "g", "e", " ", "2">>

\* What the two segmentation calls return on the table as it is
AllCycles == get_cycles(df, column_mapping, Threshold).cycles
DischargeList == get_discharge_charge_cycles(df, column_mapping, Threshold).discharge
ChargeList == get_discharge_charge_cycles(df, column_mapping, Threshold).charge
SublistOf(text) == IF IsWordK(text, TextDischarge) THEN DischargeList ELSE ChargeList

----------------------------------------------------------------------------
(* Properties *)

\* C1: for a table with at least one active row, the cycles returned by
\* get_cycles tile the range from the first active row to the last row index:
\* the first cycle starts at the first active row, each cycle ends where the
\* next starts, the last cycle ends at the last row index, and the boundaries
\* are strictly increasing, so that no cycle is empty.
C1_CyclesTileStrictly ==
    (HasActiveRow /\ last.op = "get_cycles") =>
        /\ ~last.raised
        /\ Len(last.cycles) >= 1
        /\ last.cycles[1][1] = FirstActiveRow
        /\ \A k \in 1..(Len(last.cycles) - 1) : last.cycles[k][2] = last.cycles[k + 1][1]
        /\ last.cycles[Len(last.cycles)][2] = LastRow
        /\ \A k \in 1..Len(last.cycles) : last.cycles[k][1] < last.cycles[k][2]

\* C2: on the current sequence [0,0,1,1,-1,-1,-1,2] get_cycles starts at row 2
\* and returns exactly [(2,4), (4,7)], and get_discharge_charge_cycles returns
\* the discharge list [(4,7)] and the charge list [(2,4)].
C2_ScenarioCycles ==
    (constructed = "yes" /\ CurrentCol = ScenarioCurrent) =>
        /\ FirstActiveRow = 2
        /\ last.op = "get_cycles" => last.cycles = << <<2, 4>>, <<4, 7>> >>
        /\ last.op = "get_discharge_charge_cycles" =>
              /\ last.discharge = << <<4, 7>> >>
              /\ last.charge = << <<2, 4>> >>

\* C3: for a table with at least one active row, every row from the first
\* active row through the last row lies in exactly one of the half-open ranges
\* returned by get_cycles, and the cycles' extracts of a column, concatenated,
\* are that column from the first active row to the last row.
C3_EveryActiveRowInOneCycle ==
    (HasActiveRow /\ last.op = "get_cycles" /\ ~last.raised) =>
        /\ \A r \in FirstActiveRow..LastRow :
              Cardinality({k \in 1..Len(last.cycles) :
                              last.cycles[k][1] <= r /\ r < last.cycles[k][2]}) = 1
        /\ Concat([k \in 1..Len(last.cycles) |->
                      get_column_data(df, column_mapping, "time", last.cycles[k])])
              = SubSeq(iloc_col(df, column_mapping["time"]), FirstActiveRow + 1, Len(df))

C5_ScenarioMapping ==
    (headers = ScenarioHeaders /\ last.op = "load_file" /\ last.args = <<1>>) =>
        /\ ~last.raised
        /\ {"potential", "time", "capacity", "current"} \subseteq DOMAIN column_mapping
        /\ column_mapping["potential"] = 0
        /\ column_mapping["time"] = 1
        /\ column_mapping["capacity"] = 2
        /\ column_mapping["current"] = 3

\* The header positions whose stripped, lower-cased text contains the pattern
HeadersWith(pattern) ==
    {i \in 0..(Len(headers) - 1) :
        str_contains(str_lower(pattern), str_lower(str_strip(headers[i + 1])))}

\* The positions in the field's pattern list of the patterns some header contains
PatternsPresent(f) ==
    {k \in 1..Len(COLUMN_PATTERNS[f]) : HeadersWith(COLUMN_PATTERNS[f][k]) # {}}

\* The header positions containing any pattern of the field
HeadersOfField(f) ==
    UNION {HeadersWith(COLUMN_PATTERNS[f][k]) : k \in 1..Len(COLUMN_PATTERNS[f])}

AutoDetected == last.op = "load_file" /\ last.args = <<1>>

\* C6 as stated: auto-detection binds each field to the leftmost header
\* containing the earliest pattern, in pattern-list order, that any header
\* contains; a later pattern is used only when no header contains an earlier
\* one; a field no header matches stays unbound.
C6_EarliestPatternWins ==
    AutoDetected =>
        \A n \in 1..Len(StandardCols) :
            LET f == StandardCols[n]
            IN  IF PatternsPresent(f) = {}
                THEN f \notin DOMAIN column_mapping
                ELSE /\ f \in DOMAIN column_mapping
                     /\ column_mapping[f] =
                          SetMin(HeadersWith(COLUMN_PATTERNS[f][SetMin(PatternsPresent(f))]))

\* C6 as amended: auto-detection binds each field to the leftmost header that
\* contains any pattern of the field's list, whatever the pattern's place in
\* the list; a field no header matches stays unbound, and a bound field is
\* bound once.
C6_LeftmostMatchingHeaderWins ==
    AutoDetected =>
        \A n \in 1..Len(StandardCols) :
            LET f == StandardCols[n]
            IN  IF HeadersOfField(f) = {}
                THEN f \notin DOMAIN column_mapping
                ELSE /\ f \in DOMAIN column_mapping
                     /\ column_mapping[f] = SetMin(HeadersOfField(f))

\* C6 witness: a field is bound although a header further right contains an
\* earlier pattern of its list than any pattern the bound header contains
C6_Witness ==
    /\ AutoDetected
    /\ \E n \in 1..Len(StandardCols) :
          LET f == StandardCols[n]
          IN  /\ f \in DOMAIN column_mapping
              /\ column_mapping[f] \notin HeadersWith(COLUMN_PATTERNS[f][SetMin(PatternsPresent(f))])
              /\ \E i \in HeadersOfField(f) : i > column_mapping[f]

\* C7: a bare-integer cycle specification N outside [1, total_cycle_count]
\* makes plot_single_file fail with a bounds error stating the valid range; it
\* never plots a silently empty or wrong set of series.
C7_BareIntegerOutOfRangeFails ==
    (HasActiveRow /\ last.op = "plot_single_file" /\ int_ok(last.input)
       /\ (int_value(last.input) < 1 \/ int_value(last.input) > Len(AllCycles))) =>
        /\ last.raised
        /\ last.message = MsgInvalidCycleNumber
        /\ last.nums = <<int_value(last.input), Len(AllCycles)>>

\* C8: a cycle specification that is not empty, not "all" (case-insensitive),
\* not "discharge K", not "charge K" and not a bare integer makes
\* _parse_cycle_input fail with a format error; none is taken as "all cycles".
C8_OtherTextIsFormatError ==
    (HasActiveRow /\ last.op = "_parse_cycle_input"
       /\ last.input # <<>> /\ str_lower(last.input) # <<"a", "l", "l">>
       /\ ~IsWordK(last.input, TextDischarge) /\ ~IsWordK(last.input, TextCharge)
       /\ ~int_ok(last.input)) =>
        /\ last.raised
        /\ last.message \in {MsgCycleFormat, MsgDischargeFormat, MsgChargeFormat}

\* C9: "discharge K" (resp. "charge K") with K outside [1, discharge_count]
\* (resp. [1, charge_count]) fails with a range error, distinct from the format
\* error, whose message states the valid range; "charge 2" on the current
\* sequence [0,0,1,1,-1,-1,-1,2] fails citing the valid range 1-1.
C9_OutOfRangeIsRangeError ==
    (HasActiveRow /\ last.op = "_parse_cycle_input") =>
        /\ (IsWordK(last.input, TextDischarge)
              /\ (KOf(last.input) < 1 \/ KOf(last.input) > Len(DischargeList))) =>
              /\ last.raised
              /\ last.message = MsgDischargeNotFound
              /\ last.nums = <<KOf(last.input), Len(DischargeList)>>
        /\ (IsWordK(last.input, TextCharge)
              /\ (KOf(last.input) < 1 \/ KOf(last.input) > Len(ChargeList))) =>
              /\ last.raised
              /\ last.message = MsgChargeNotFound
              /\ last.nums = <<KOf(last.input), Len(ChargeList)>>
        /\ (CurrentCol = ScenarioCurrent /\ last.input = TextCharge2) =>
              /\ last.raised
              /\ last.message = MsgChargeNotFound
              /\ last.nums = <<2, 1>>

\* C10: "discharge K" (resp. "charge K") with 1 <= K <= discharge_count (resp.
\* charge_count) makes _parse_cycle_input return exactly one 1-based index i,
\* and the i-th cycle of get_cycles, and no other, is the K-th entry of the
\* discharge (resp. charge) sublist; "discharge 1" on the current sequence
\* [0,0,1,1,-1,-1,-1,2] returns index 2.
C10_InRangeReturnsChronologicalIndex ==
    (HasActiveRow /\ last.op = "_parse_cycle_input") =>
        /\ ((IsWordK(last.input, TextDischarge) \/ IsWordK(last.input, TextCharge))
              /\ 1 <= KOf(last.input) /\ KOf(last.input) <= Len(SublistOf(last.input))) =>
              /\ ~last.raised
              /\ ~last.none
              /\ Len(last.indices) = 1
              /\ last.indices[1] \in 1..Len(AllCycles)
              /\ \A j \in 1..Len(AllCycles) :
                    (AllCycles[j] = SublistOf(last.input)[KOf(last.input)])
                       <=> (j = last.indices[1])
        /\ (CurrentCol = ScenarioCurrent /\ last.input = TextDischarge1) =>
              last.indices = <<2>>

\* C10 witness: "discharge 1" parsed on the scenario's table, where the first
\* discharge cycle is the second cycle
C10_Witness ==
    /\ HasActiveRow
    /\ last.op = "_parse_cycle_input"
    /\ CurrentCol = ScenarioCurrent
    /\ last.input = TextDischarge1
    /\ DischargeList[1] = AllCycles[2]
    /\ last.indices = <<2>>

----------------------------------------------------------------------------
(* Classification of the cycles *)

\* The sum of the current over the rows lo..hi-1 of the table
RECURSIVE RangeSum(_, _)
RangeSum(lo, hi) == IF lo >= hi THEN 0 ELSE CurrentCol[lo + 1] + RangeSum(lo + 1, hi)

\* The mean current over the range of cycle c is negative (no rows: no mean)
MeanNegative(c) == c[1] < c[2] /\ RangeSum(c[1], c[2]) < 0

\* The mean current over the range of cycle c is exactly zero
MeanZero(c) == c[1] < c[2] /\ RangeSum(c[1], c[2]) = 0

InList(c, list) == \E i \in 1..Len(list) : list[i] = c

\* The cycles of the list start later and later
Chronological(list) == \A i, j \in 1..Len(list) : i < j => list[i][1] < list[j][1]

\* C11: get_discharge_charge_cycles puts every cycle get_cycles returns in
\* exactly one of its two sublists: in discharge if and only if the mean current
\* over the cycle's range is negative, in charge otherwise (a mean of exactly
\* zero included); the two lengths add up to the number of cycles and each
\* sublist is in chronological order.
C11_EveryCycleClassifiedOnce ==
    (HasActiveRow /\ last.op = "get_discharge_charge_cycles") =>
        /\ ~last.raised
        /\ Len(last.discharge) + Len(last.charge) = Len(AllCycles)
        /\ \A k \in 1..Len(AllCycles) :
              /\ InList(AllCycles[k], last.discharge) <=> MeanNegative(AllCycles[k])
              /\ InList(AllCycles[k], last.charge) <=> ~MeanNegative(AllCycles[k])
        /\ \A i \in 1..Len(last.discharge) : InList(last.discharge[i], AllCycles)
        /\ \A i \in 1..Len(last.charge) : InList(last.charge[i], AllCycles)
        /\ Chronological(last.discharge)
        /\ Chronological(last.charge)

\* C11 witness: a classification with both sublists filled, a cycle of mean
\* zero among the charge cycles
C11_Witness ==
    /\ HasActiveRow
    /\ last.op = "get_discharge_charge_cycles"
    /\ Len(last.discharge) >= 1
    /\ Len(last.charge) >= 2
    /\ \E i \in 1..Len(last.charge) : MeanZero(last.charge[i])

----------------------------------------------------------------------------
(* Trimming *)

\* The boundaries of the cycles, each moved down by offset
ShiftedBy(cycles, offset) ==
    [k \in 1..Len(cycles) |-> <<cycles[k][1] - offset, cycles[k][2] - offset>>]

\* C12: on a table with at least one active row, trim_to_first_cycle followed by
\* get_cycles yields the cycle boundaries get_cycles yields on the untrimmed
\* table, each lowered by the trim offset, the index of the first active row.
C12_TrimShiftsCycles ==
    [][(HasActiveRow /\ last'.op = "trim_to_first_cycle") =>
          /\ ~get_cycles(df', column_mapping', Threshold).raised
          /\ get_cycles(df', column_mapping', Threshold).cycles
                = ShiftedBy(AllCycles, FirstActiveRow)]_vars

\* C12 witness: a trimmed table that lost leading rows (its first time stamp is
\* past the file's first) and has two cycles or more
C12_Witness ==
    /\ HasActiveRow
    /\ last.op = "trim_to_first_cycle"
    /\ df[1][column_mapping["time"] + 1] > TimeStart
    /\ FirstActiveRow = 0
    /\ Len(AllCycles) >= 2

----------------------------------------------------------------------------
(* Construction *)

RequiredFields == {"time", "potential", "capacity", "current"}

\* The required fields none of whose patterns any header contains
UnboundFields == {f \in RequiredFields : HeadersOfField(f) = {}}

\* C13: an object is constructed only if each of time, potential, capacity and
\* current is mapped to a column position of the table; when the scan leaves a
\* required field unbound, construction fails with an error that names the
\* missing fields and lists the headers actually present.
C13_ConstructedOnlyIfAllRequiredBound ==
    (last.op = "load_file") =>
        /\ constructed \in {"yes", "failed"}
        /\ (constructed = "yes") =>
              /\ ~last.raised
              /\ \A f \in RequiredFields :
                    /\ f \in DOMAIN column_mapping
                    /\ column_mapping[f] \in 0..(Len(headers) - 1)
        /\ (constructed = "failed") => last.raised
        /\ (AutoDetected /\ UnboundFields # {}) =>
              /\ constructed = "failed"
              /\ last.raised
              /\ last.message = MsgLoadAutoDetect
              /\ {last.names[i] : i \in 1..Len(last.names)} = UnboundFields
              /\ last.columns = headers

\* C13 witness: an auto-detecting construction that fails on a header row of
\* three columns with potential bound and time and current missing
C13_Witness ==
    /\ AutoDetected
    /\ constructed = "failed"
    /\ Len(headers) = 3
    /\ "potential" \in DOMAIN column_mapping
    /\ UnboundFields = {"time", "current"}
    /\ last.columns = headers

----------------------------------------------------------------------------
(* Detection of the first active row *)

\* The constructed object's table has no reading above the threshold
NoActivity == constructed = "yes" /\ ActiveRows = {}

Detecting == {"get_cycles", "get_discharge_charge_cycles", "trim_to_first_cycle"}

\* C14 as stated: on a table whose current never exceeds 1e-6 in absolute
\* value, get_cycles, get_discharge_charge_cycles and trim_to_first_cycle each
\* fail with the no-activity error and return no result; otherwise the detected
\* row is the smallest index whose absolute current exceeds the threshold.
C14_NoActivityFailsEveryDetection ==
    /\ (NoActivity /\ last.op \in Detecting) =>
          /\ last.raised
          /\ last.message = MsgNoCurrent
          /\ last.cycles = <<>> /\ last.discharge = <<>> /\ last.charge = <<>>
    /\ (HasActiveRow /\ last.op = "get_cycles") =>
          /\ ~last.raised
          /\ last.cycles[1][1] = FirstActiveRow

\* C14, amended: on such a table get_cycles and get_discharge_charge_cycles
\* fail with the no-activity error and return no result, while
\* trim_to_first_cycle raises nothing and leaves the table as it is; otherwise
\* the detected row is the smallest index whose absolute current exceeds the
\* threshold: the first boundary of get_cycles, and the first row
\* trim_to_first_cycle keeps.
C14_NoActivityFailsSegmentationOnly ==
    [][/\ (NoActivity /\ last'.op \in {"get_cycles", "get_discharge_charge_cycles"}) =>
             /\ last'.raised
             /\ last'.message = MsgNoCurrent
             /\ ~last'.none
             /\ last'.cycles = <<>> /\ last'.discharge = <<>> /\ last'.charge = <<>>
       /\ (NoActivity /\ last'.op = "trim_to_first_cycle") =>
             /\ ~last'.raised
             /\ df' = df
       /\ (HasActiveRow /\ last'.op = "get_cycles") =>
             /\ ~last'.raised
             /\ last'.cycles[1][1] = FirstActiveRow
       /\ (HasActiveRow /\ last'.op = "get_discharge_charge_cycles") =>
             /\ ~last'.raised
             /\ (last'.discharge \o last'.charge) # <<>>
       /\ (HasActiveRow /\ last'.op = "trim_to_first_cycle") =>
             /\ ~last'.raised
             /\ df' = SubSeq(df, FirstActiveRow + 1, Len(df))]_vars

\* C14 witness: trim_to_first_cycle has returned on a table of two rows or more
\* with no activity, one reading exactly at the threshold
C14_Witness ==
    /\ NoActivity
    /\ last.op = "trim_to_first_cycle"
    /\ ~last.raised
    /\ Len(df) >= 2
    /\ \E k \in 1..Len(df) : CurrentCol[k] = Threshold

----------------------------------------------------------------------------
(* Time normalization *)

\* C15: normalize_time changes only the time values: on every successfully
\* loaded table, after trim_to_first_cycle, get_cycles and
\* get_discharge_charge_cycles return immediately after normalize_time what
\* they return immediately before it; the current column read by segmentation
\* is not altered.
C15_NormalizeTimeKeepsSegmentation ==
    [][(constructed = "yes" /\ last.op = "trim_to_first_cycle"
          /\ last'.op = "normalize_time" /\ ~last'.raised) =>
          /\ get_cycles(df', column_mapping', Threshold)
                = get_cycles(df, column_mapping, Threshold)
          /\ get_discharge_charge_cycles(df', column_mapping', Threshold)
                = get_discharge_charge_cycles(df, column_mapping, Threshold)
          /\ iloc_col(df', column_mapping'["current"]) = CurrentCol]_vars

====
